---- MODULE Spec2Model ----
(***************************************************************************)
(* ptool: walk a directory tree, run one worker per sieved file, reduce    *)
(* the worker results to a text report.                                    *)
(*                                                                         *)
(* Two revisions are modelled:                                             *)
(*   - src/src/ptool (cooperative tasks): __main__.main, sieves.img, the   *)
(*     workers and the collectors, as the state machine Spec;              *)
(*   - src/ptool.py (process pool): the worker functions Cams.process,     *)
(*     NoCam.process and UserComment.process, applied next to their        *)
(*     successors in the pure-function specification WorkerSpec.           *)
(*                                                                         *)
(* A Python str is a sequence of one-character tokens ("NUL" stands for    *)
(* the character \x00, "ELLIPSIS" for U+2026), a Python bytes is a         *)
(* sequence of integers 0..255, None is the value None.  A dict is the     *)
(* sequence of its <<key, value>> pairs in insertion order, which is the   *)
(* order Python iterates it in.                                            *)
(***************************************************************************)
EXTENDS Integers, Sequences, FiniteSets, Bags, TLC

(***************************************************************************)
(* Bounds of the model.                                                    *)
(***************************************************************************)
\* Largest number of files the walked tree holds.
MaxFiles == 3

\* Longest comment text that follows (or stands in for) the 8-byte marker.
MaxTail == 2

(***************************************************************************)
(* Python values.                                                          *)
(***************************************************************************)
\* None, a value different from every str (no str holds this token).
None == <<"<None>">>

\* A raised exception and a returned value, as the outcome of a call.
Raise(err) == [ok |-> FALSE, val |-> err]

Return(v) == [ok |-> TRUE, val |-> v]

\* Code points of the characters the model uses, for str comparison.
Ord(c) ==
  CASE c = "NUL" -> 0
    [] c = " " -> 32
    [] c = "." -> 46
    [] c = "/" -> 47
    [] c = "1" -> 49
    [] c = "<" -> 60
    [] c = ">" -> 62
    [] c = "A" -> 65
    [] c = "C" -> 67
    [] c = "D" -> 68
    [] c = "E" -> 69
    [] c = "F" -> 70
    [] c = "H" -> 72
    [] c = "K" -> 75
    [] c = "M" -> 77
    [] c = "N" -> 78
    [] c = "U" -> 85
    [] c = "a" -> 97
    [] c = "b" -> 98
    [] c = "c" -> 99
    [] c = "d" -> 100
    [] c = "e" -> 101
    [] c = "g" -> 103
    [] c = "h" -> 104
    [] c = "i" -> 105
    [] c = "j" -> 106
    [] c = "k" -> 107
    [] c = "n" -> 110
    [] c = "p" -> 112
    [] c = "r" -> 114
    [] c = "s" -> 115
    [] c = "u" -> 117
    [] c = "x" -> 120

\* a < b for two str: lexicographic by code point.
RECURSIVE StrLess(_, _)
StrLess(a, b) ==
  IF b = <<>> THEN FALSE
  ELSE IF a = <<>> THEN TRUE
  ELSE IF Ord(Head(a)) # Ord(Head(b)) THEN Ord(Head(a)) < Ord(Head(b))
  ELSE StrLess(Tail(a), Tail(b))

\* x in s: x occurs in s as a contiguous substring.
Contains(x, s) ==
  \E i \in 0..(Len(s) - Len(x)) : SubSeq(s, i + 1, i + Len(x)) = x

\* s.endswith(suf)
EndsWith(s, suf) ==
  /\ Len(suf) <= Len(s)
  /\ SubSeq(s, Len(s) - Len(suf) + 1, Len(s)) = suf

\* s.rfind(c): the last position of character c in s (1-based), 0 if none.
RFind(s, c) ==
  IF \E i \in 1..Len(s) : s[i] = c
  THEN CHOOSE i \in 1..Len(s) : s[i] = c /\ \A j \in (i + 1)..Len(s) : s[j] # c
  ELSE 0

\* os.path.join(path, f) for a relative f and a path without trailing slash.
PathJoin(path, f) == path \o <<"/">> \o f

\* s.rstrip("/")
RECURSIVE RStripSlash(_)
RStripSlash(s) ==
  IF s # <<>> /\ s[Len(s)] = "/" THEN RStripSlash(SubSeq(s, 1, Len(s) - 1)) ELSE s

\* os.path.dirname(p): the head up to the last slash, trailing slashes
\* stripped unless the head is nothing but slashes.
Dirname(p) ==
  LET head == SubSeq(p, 1, RFind(p, "/"))
  IN IF head # <<>> /\ (\E i \in 1..Len(head) : head[i] # "/")
     THEN RStripSlash(head)
     ELSE head

\* str.strip(): whitespace removed at both ends.
RECURSIVE StripSpace(_)
StripSpace(s) ==
  IF s = <<>> THEN s
  ELSE IF Head(s) = " " THEN StripSpace(Tail(s))
  ELSE IF s[Len(s)] = " " THEN StripSpace(SubSeq(s, 1, Len(s) - 1))
  ELSE s

\* str.strip("\x00"): NUL characters removed at both ends.
RECURSIVE StripNul(_)
StripNul(s) ==
  IF s = <<>> THEN s
  ELSE IF Head(s) = "NUL" THEN StripNul(Tail(s))
  ELSE IF s[Len(s)] = "NUL" THEN StripNul(SubSeq(s, 1, Len(s) - 1))
  ELSE s

\* bool(v) of a tag value: None and the empty str are false.
Truthy(v) == v # None /\ v # <<>>

(***************************************************************************)
(* sieves.py                                                               *)
(***************************************************************************)
\* sieves.img(f), with has_heif the outcome of importing pillow_heif.
img(f, heif) ==
  \/ EndsWith(f, <<".", "j", "p", "g">>)
  \/ (EndsWith(f, <<".", "h", "e", "i", "c">>) /\ heif)

(***************************************************************************)
(* The tag set PIL returns for one file: bad when Image.open or getexif    *)
(* raises; Make, Model, Software a str or None (tag absent); Lat and Lon   *)
(* the GPS IFD's GPSLatitude and GPSLongitude, None when absent;           *)
(* UserComment of type t: "none" (tag absent), "str" (the text s) or       *)
(* "bytes" (the payload b).                                                *)
(***************************************************************************)
\* The default "<UNDEF>" of workers.cams.
UNDEF == <<"<", "U", "N", "D", "E", "F", ">">>

\* A GPS coordinate that is present (PIL gives a non-empty tuple of rationals).
Coord == <<"1">>

NoComment == [t |-> "none", s |-> <<>>, b |-> <<>>]

StrComment(v) == [t |-> "str", s |-> v, b |-> <<>>]

BytesComment(v) == [t |-> "bytes", s |-> <<>>, b |-> v]

NoTags ==
  [bad |-> FALSE, Make |-> None, Model |-> None, Software |-> None,
   Lat |-> None, Lon |-> None, UserComment |-> NoComment]

\* dict.get(key, default)
Get(v, default) == IF v = None THEN default ELSE v

(***************************************************************************)
(* workers.py                                                              *)
(***************************************************************************)
\* The first 8 bytes of a UserComment are looked up among the markers.
MarkerLen == 8

\* usercomment_encoding: marker -> name, as <<key, value>> pairs.
usercomment_encoding ==
  << <<(<<65, 83, 67, 73, 73, 0, 0, 0>>), <<"a", "s", "c", "i", "i">> >>,
     <<(<<85, 78, 73, 67, 79, 68, 69, 0>>), <<"u", "n", "i", "c", "o", "d", "e">> >>,
     <<(<<74, 73, 83, 0, 0, 0, 0, 0>>), <<"j", "i", "s">> >>,
     <<(<<0, 0, 0, 0, 0, 0, 0, 0>>), <<"u", "n", "d", "e", "f", "i", "n", "e", "d">> >> >>

\* key in usercomment_encoding
IsMarker(b) == \E i \in 1..Len(usercomment_encoding) : usercomment_encoding[i][1] = b

\* The character of an ASCII byte.
Chr(b) ==
  CASE b = 0 -> "NUL"
    [] b = 32 -> " "
    [] b = 65 -> "A"
    [] b = 67 -> "C"
    [] b = 68 -> "D"
    [] b = 69 -> "E"
    [] b = 72 -> "H"
    [] b = 73 -> "I"
    [] b = 74 -> "J"
    [] b = 78 -> "N"
    [] b = 79 -> "O"
    [] b = 83 -> "S"
    [] b = 85 -> "U"
    [] b = 105 -> "i"

\* bytes.decode(): UTF-8.  The model's bytes are ASCII bytes and 0xFF, which
\* no UTF-8 text holds: decoding raises on it.
Decode(b) ==
  IF \E i \in 1..Len(b) : b[i] >= 128
  THEN Raise("UnicodeDecodeError")
  ELSE Return([i \in 1..Len(b) |-> Chr(b[i])])

\* b[:n] and b[n:] of Python slicing.
Take(b, n) == SubSeq(b, 1, IF Len(b) < n THEN Len(b) ELSE n)

Drop(b, n) == SubSeq(b, n + 1, Len(b))

\* The value a finished call hands on: (f, text) when decoding succeeded.
WithPath(f, d) == IF d.ok THEN Return(<<f, d.val>>) ELSE d

\* exif(path): raises when the file cannot be opened or decoded.
cams(f, e) ==
  IF e.bad THEN Raise("ExtractionError")
  ELSE Return(<<StripNul(StripSpace(Get(e.Make, UNDEF))),
                StripNul(StripSpace(Get(e.Model, UNDEF)))>>)

nocam(f, e) ==
  IF e.bad THEN Raise("ExtractionError")
  ELSE IF ~Truthy(e.Make) \/ ~Truthy(e.Model) THEN Return(f)
  ELSE Return(<<>>)

nogps(f, e) ==
  IF e.bad THEN Raise("ExtractionError")
  ELSE IF ~Truthy(e.Lat) \/ ~Truthy(e.Lon) THEN Return(f)
  ELSE Return(<<>>)

hugin(f, e) ==
  IF e.bad THEN Raise("ExtractionError")
  ELSE LET software == Get(e.Software, <<>>)
       IN IF Contains(<<"H", "u", "g", "i", "n">>, software)
          THEN Return(<<f, software>>)
          ELSE Return(<< <<>>, <<>> >>)

\* usercomment without the marker test: the whole payload is decoded.
usercomment_whole(f, e) ==
  IF e.bad THEN Raise("ExtractionError")
  ELSE LET comment == e.UserComment
       IN IF comment.t = "none" THEN Return(<< <<>>, <<>> >>)
          ELSE IF comment.t = "str" THEN Return(<<f, comment.s>>)
          ELSE WithPath(f, Decode(comment.b))

usercomment(f, e) ==
  IF e.bad THEN Raise("ExtractionError")
  ELSE LET comment == e.UserComment
       IN IF comment.t = "none" THEN Return(<< <<>>, <<>> >>)
          ELSE IF comment.t = "str" THEN Return(<<f, comment.s>>)
          ELSE IF IsMarker(Take(comment.b, MarkerLen))
          THEN WithPath(f, Decode(Drop(comment.b, MarkerLen)))
          ELSE WithPath(f, Decode(comment.b))

usercomment_std(f, e) ==
  IF e.bad THEN Raise("ExtractionError")
  ELSE LET comment == e.UserComment
           key == Take(comment.b, MarkerLen)
       IN IF comment.t = "none"
          THEN Return(<<"n", "o", " ", "u", "s", "e", "r", "c", "o", "m", "m", "e", "n", "t">>)
          ELSE IF comment.t = "str"
          THEN Return(<<"n", "o", "n", "-", "c", "o", "m", "p", "l", "i", "a", "n", "t",
                        " ", "(", "s", "t", "r", ")">>)
          ELSE IF IsMarker(key)
          THEN Return((CHOOSE p \in {usercomment_encoding[i] :
                                       i \in 1..Len(usercomment_encoding)} : p[1] = key)[2])
          ELSE Return(<<"n", "o", "n", "-", "c", "o", "m", "p", "l", "i", "a", "n", "t",
                        " ", "(", "n", "o", "n", "-", "s", "t", "d", " ",
                        "b", "y", "t", "e", "s", ")">>)

\* nogpsdir with "and" in place of "or" between the two tag tests.
worker_nogpsdir_and(f, e) ==
  IF e.bad THEN Raise("ExtractionError")
  ELSE Return(<<Dirname(f), ~Truthy(e.Lat) /\ ~Truthy(e.Lon)>>)

worker_nogpsdir(f, e) ==
  IF e.bad THEN Raise("ExtractionError")
  ELSE Return(<<Dirname(f), ~Truthy(e.Lat) \/ ~Truthy(e.Lon)>>)

\* file_ext with [-1] in place of [1]: the whole path when it holds no ".".
file_ext_last(f, e) ==
  IF RFind(f, ".") = 0 THEN Return(f)
  ELSE Return(SubSeq(f, RFind(f, ".") + 1, Len(f)))

\* f.rsplit(".", maxsplit=1)[1]: no "." leaves a one-element list.
file_ext(f, e) ==
  IF RFind(f, ".") = 0 THEN Raise("IndexError")
  ELSE Return(SubSeq(f, RFind(f, ".") + 1, Len(f)))

(***************************************************************************)
(* ptool.py: the worker functions of the process-pool revision.            *)
(***************************************************************************)
Cams_process(f, e) ==
  IF e.bad THEN Raise("ExtractionError")
  ELSE Return(<<StripNul(StripSpace(Get(e.Make, UNDEF))),
                StripNul(StripSpace(Get(e.Model, UNDEF)))>>)

\* e.get(tag) == "": None (tag absent) is not equal to "".
NoCam_process(f, e) ==
  IF e.bad THEN Raise("ExtractionError")
  ELSE IF e.Make = <<>> \/ e.Model = <<>> THEN Return(f)
  ELSE Return(<<>>)

UserComment_process(f, e) ==
  IF e.bad THEN Raise("ExtractionError")
  ELSE LET comment == e.UserComment
       IN IF comment.t = "none" THEN Return(<< <<>>, <<>> >>)
          ELSE IF comment.t = "str" THEN Return(<<f, comment.s>>)
          ELSE IF Take(comment.b, MarkerLen) \in
                    { <<65, 83, 67, 73, 73, 0, 0, 0>>,
                      <<85, 78, 73, 67, 79, 68, 69, 0>>,
                      <<74, 73, 83, 0, 0, 0, 0, 0>>,
                      <<0, 0, 0, 0, 0, 0, 0, 0>> }
          THEN WithPath(f, Decode(Drop(comment.b, MarkerLen)))
          ELSE WithPath(f, Decode(comment.b))

(***************************************************************************)
(* Python dict: <<key, value>> pairs in insertion order.                   *)
(***************************************************************************)
\* key in d
DictHas(d, k) == \E i \in 1..Len(d) : d[i][1] = k

\* d[key]
DictGet(d, k) == d[CHOOSE i \in 1..Len(d) : d[i][1] = k][2]

\* d[key] = v: a new key goes last, an old key keeps its place.
DictSet(d, k, v) ==
  IF DictHas(d, k)
  THEN [i \in 1..Len(d) |-> IF d[i][1] = k THEN <<k, v>> ELSE d[i]]
  ELSE Append(d, <<k, v>>)

\* list(d.keys())
DictKeys(d) == [i \in 1..Len(d) |-> d[i][1]]

\* sorted(strs): ascending list of str.
RECURSIVE InsertStr(_, _)
InsertStr(s, x) ==
  IF s = <<>> THEN <<x>>
  ELSE IF StrLess(x, Head(s)) THEN <<x>> \o s
  ELSE <<Head(s)>> \o InsertStr(Tail(s), x)

RECURSIVE SortedStr(_)
SortedStr(s) ==
  IF s = <<>> THEN <<>> ELSE InsertStr(SortedStr(SubSeq(s, 1, Len(s) - 1)), s[Len(s)])

\* sorted(items, key=...) on <<key, item>> pairs with integer keys: stable,
\* items of equal key keep the order they came in.
RECURSIVE InsertKeyed(_, _)
InsertKeyed(s, x) ==
  IF s = <<>> THEN <<x>>
  ELSE IF x[1] < Head(s)[1] THEN <<x>> \o s
  ELSE <<Head(s)>> \o InsertKeyed(Tail(s), x)

RECURSIVE SortedKeyed(_)
SortedKeyed(s) ==
  IF s = <<>> THEN <<>> ELSE InsertKeyed(SortedKeyed(SubSeq(s, 1, Len(s) - 1)), s[Len(s)])

(***************************************************************************)
(* collectors.py.  A report is the sequence of its lines; a line is the    *)
(* tuple of its formatted fields (the " | " between them is fixed text, a   *)
(* number stays a number).                                                 *)
(***************************************************************************)
MakerWidth == 25

ModelWidth == 40

PathWidth == 60

TextWidth == 30

Spaces(n) == [i \in 1..n |-> " "]

\* f"{x: >n}": right-aligned in n columns, never cut.
RJust(x, n) == IF Len(x) < n THEN Spaces(n - Len(x)) \o x ELSE x

\* f"{x: <n}": left-aligned in n columns, never cut.
LJust(x, n) == IF Len(x) < n THEN x \o Spaces(n - Len(x)) ELSE x

right(n, x) ==
  IF Len(x) < n THEN x ELSE <<"ELLIPSIS">> \o SubSeq(x, Len(x) - (n - 1) + 1, Len(x))

left(n, x) ==
  IF Len(x) < n THEN x ELSE SubSeq(x, 1, n - 1) \o <<"ELLIPSIS">>

\* " ".join(v.split()): runs of whitespace become one space, none at the ends.
RECURSIVE Words(_, _)
Words(v, cur) ==
  IF v = <<>> THEN (IF cur = <<>> THEN <<>> ELSE <<cur>>)
  ELSE IF Head(v) = " "
  THEN (IF cur = <<>> THEN <<>> ELSE <<cur>>) \o Words(Tail(v), <<>>)
  ELSE Words(Tail(v), Append(cur, Head(v)))

RECURSIVE JoinSpace(_)
JoinSpace(ws) ==
  IF ws = <<>> THEN <<>>
  ELSE IF Len(ws) = 1 THEN ws[1]
  ELSE ws[1] \o <<" ">> \o JoinSpace(Tail(ws))

RECURSIVE Concat(_)
Concat(ss) == IF ss = <<>> THEN <<>> ELSE Head(ss) \o Concat(Tail(ss))

\* two_level with stat[maker] = {} in place of stat.setdefault(maker, {}).
two_level_add_reset(stat, r) ==
  LET maker == r[1]
      model == r[2]
      x == <<>>
      y == IF DictHas(x, model) THEN DictGet(x, model) ELSE 0
  IN DictSet(stat, maker, DictSet(x, model, y + 1))

\* two_level: the loop body and the rendering.
two_level_add(stat, r) ==
  LET maker == r[1]
      model == r[2]
      x == IF DictHas(stat, maker) THEN DictGet(stat, maker) ELSE <<>>
      y == IF DictHas(x, model) THEN DictGet(x, model) ELSE 0
  IN DictSet(stat, maker, DictSet(x, model, y + 1))

\* two_level rendered without sorted(): makers and models in dict order.
two_level_render_unsorted(stat) ==
  LET makers == DictKeys(stat)
      block(maker) ==
        LET models == DictKeys(DictGet(stat, maker))
        IN [j \in 1..Len(models) |->
              <<RJust(maker, MakerWidth), RJust(models[j], ModelWidth),
                DictGet(DictGet(stat, maker), models[j])>>]
  IN Concat([i \in 1..Len(makers) |-> block(makers[i])])

two_level_render(stat) ==
  LET makers == SortedStr(DictKeys(stat))
      block(maker) ==
        LET models == SortedStr(DictKeys(DictGet(stat, maker)))
        IN [j \in 1..Len(models) |->
              <<RJust(maker, MakerWidth), RJust(models[j], ModelWidth),
                DictGet(DictGet(stat, maker), models[j])>>]
  IN Concat([i \in 1..Len(makers) |-> block(makers[i])])

\* simple_list
simple_list_add(lst, f) == IF f # <<>> THEN Append(lst, f) ELSE lst

simple_list_render(lst) == lst

\* key_value
key_value_add(res, r) == IF r[1] # <<>> THEN DictSet(res, r[1], r[2]) ELSE res

key_value_render(res) ==
  [i \in 1..Len(res) |->
     <<RJust(right(PathWidth, res[i][1]), PathWidth),
       LJust(left(TextWidth, JoinSpace(Words(res[i][2], <<>>))), TextWidth)>>]

\* nogpsdir: v[True] counts the files without GPS, v[False] those with.
collector_nogpsdir_add(res, r) ==
  LET dirname == r[1]
      flag == r[2]
      x == IF DictHas(res, dirname) THEN DictGet(res, dirname)
           ELSE [b \in BOOLEAN |-> 0]
  IN DictSet(res, dirname, [x EXCEPT ![flag] = @ + 1])

collector_nogpsdir_render(res) ==
  LET srt == SortedKeyed([i \in 1..Len(res) |-> <<res[i][2][TRUE], res[i]>>])
      kept == SelectSeq(srt, LAMBDA p : p[2][2][TRUE] > 0)
  IN [i \in 1..Len(kept) |-> <<kept[i][2][2][TRUE], kept[i][2][2][FALSE], kept[i][2][1]>>]

\* stats
stats_add(res, val) ==
  IF DictHas(res, val) THEN DictSet(res, val, DictGet(res, val) + 1)
  ELSE DictSet(res, val, 1)

stats_render(res) ==
  LET srt == SortedKeyed([i \in 1..Len(res) |-> <<res[i][2], res[i]>>])
  IN [i \in 1..Len(srt) |-> <<srt[i][2][2], srt[i][2][1]>>]

(***************************************************************************)
(* __main__.py: modes, each a (sieve, worker, collector) triple.           *)
(***************************************************************************)
Modes ==
  {"cams", "nocam", "nogps", "hugin", "usercomment", "usercomment-std", "nogpsdir",
   "ftypes"}

\* modes[mode][0](ff)
Sieve(m, ff, heif) == IF m = "ftypes" THEN TRUE ELSE img(ff, heif)

\* modes[mode][1](ff), on the tag set e the file holds.
Worker(m, f, e) ==
  CASE m = "cams" -> cams(f, e)
    [] m = "nocam" -> nocam(f, e)
    [] m = "nogps" -> nogps(f, e)
    [] m = "hugin" -> hugin(f, e)
    [] m = "usercomment" -> usercomment(f, e)
    [] m = "usercomment-std" -> usercomment_std(f, e)
    [] m = "nogpsdir" -> worker_nogpsdir(f, e)
    [] m = "ftypes" -> file_ext(f, e)

\* modes[mode][2]
CollectorOf(m) ==
  CASE m = "cams" -> "two_level"
    [] m \in {"nocam", "nogps"} -> "simple_list"
    [] m \in {"hugin", "usercomment"} -> "key_value"
    [] m \in {"usercomment-std", "ftypes"} -> "stats"
    [] m = "nogpsdir" -> "nogpsdir"

\* One turn of a collector's loop over the completed tasks.
Add(c, acc, r) ==
  CASE c = "two_level" -> two_level_add(acc, r)
    [] c = "simple_list" -> simple_list_add(acc, r)
    [] c = "key_value" -> key_value_add(acc, r)
    [] c = "stats" -> stats_add(acc, r)
    [] c = "nogpsdir" -> collector_nogpsdir_add(acc, r)

\* The text a collector returns after its loop.
Render(c, acc) ==
  CASE c = "two_level" -> two_level_render(acc)
    [] c = "simple_list" -> simple_list_render(acc)
    [] c = "key_value" -> key_value_render(acc)
    [] c = "stats" -> stats_render(acc)
    [] c = "nogpsdir" -> collector_nogpsdir_render(acc)

\* A collector run on results arriving in the order of rs.
RECURSIVE Fold(_, _, _)
Fold(c, acc, rs) == IF rs = <<>> THEN acc ELSE Fold(c, Add(c, acc, Head(rs)), Tail(rs))

Collect(c, rs) == Render(c, Fold(c, <<>>, rs))

(***************************************************************************)
(* The inputs of a run: the tree under root, the -x substrings, the tag    *)
(* sets the files hold.                                                    *)
(***************************************************************************)
Root == <<"r">>

DirKeep == PathJoin(Root, <<"k", "e", "e", "p">>)

DirSkip == PathJoin(Root, <<"s", "k", "i", "p">>)

\* The files a tree may hold, each under the directory os.walk yields it in.
Universe ==
  { [dir |-> DirKeep, name |-> <<"a", ".", "j", "p", "g">>],
    [dir |-> DirKeep, name |-> <<"b", ".", "j", "p", "g">>],
    [dir |-> DirKeep, name |-> <<"c", ".", "h", "e", "i", "c">>],
    [dir |-> DirKeep, name |-> <<"n">>],
    [dir |-> DirSkip, name |-> <<"d", ".", "j", "p", "g">>] }

Trees == {t \in SUBSET Universe : Cardinality(t) <= MaxFiles}

\* The values of -x/--exclude: none, one substring, two substrings.
Excludes ==
  { <<>>,
    << <<"s", "k", "i", "p">> >>,
    << <<"x">>, <<"b", ".", "j">> >> }

Tags(make, model) == [NoTags EXCEPT !.Make = make, !.Model = model]

GpsTags(lat, lon) == [NoTags EXCEPT !.Lat = lat, !.Lon = lon]

CommentTags(c) == [NoTags EXCEPT !.UserComment = c]

BadFile == [NoTags EXCEPT !.bad = TRUE]

MarkerASCII == usercomment_encoding[1][1]

\* The tag sets a file may hold, as far as the mode's worker reads them.
TagSets(m) ==
  CASE m = "cams" ->
         { Tags(<<" ", "K", "NUL">>, <<"M", " ">>), Tags(<<"K">>, <<"M">>),
           Tags(None, <<"M">>), Tags(<<"K">>, <<"A">>), BadFile }
    [] m = "nocam" ->
         { Tags(<<"K">>, <<"M">>), Tags(None, <<"M">>), Tags(<<"K">>, <<>>), BadFile }
    [] m \in {"nogps", "nogpsdir"} ->
         { GpsTags(Coord, Coord), GpsTags(Coord, None), GpsTags(None, None), BadFile }
    [] m = "hugin" ->
         { NoTags, [NoTags EXCEPT !.Software = <<"H", "u", "g", "i", "n">>],
           [NoTags EXCEPT !.Software = <<"x">>], BadFile }
    [] m = "usercomment" ->
         { NoTags, CommentTags(StrComment(<<"H", " ", " ", "i">>)),
           CommentTags(BytesComment(MarkerASCII \o <<72, 105>>)),
           CommentTags(BytesComment(<<72, 105>>)),
           CommentTags(BytesComment(<<72, 255>>)) }
    [] m = "usercomment-std" ->
         { NoTags, CommentTags(StrComment(<<"H">>)),
           CommentTags(BytesComment(MarkerASCII \o <<72>>)),
           CommentTags(BytesComment(<<72, 105>>)), BadFile }
    [] m = "ftypes" -> { NoTags }

(***************************************************************************)
(* State.                                                                  *)
(***************************************************************************)
VARIABLES
  mode,       \* args.mode
  exclude,    \* args.exclude
  has_heif,   \* sieves.has_heif
  tree,       \* the files under args.root
  unwalked,   \* the files os.walk has not yielded yet
  curdir,     \* the directory os.walk is in
  tasks,      \* main's tasks list, in submission order
  acc,        \* the collector's accumulator (stat, lst or res)
  pc,         \* where main is: "walk", "collect", "printed", "raised"
  stdout,     \* what print has written
  error,      \* the exception that ended the run
  wpc,        \* the worker call of WorkerSpec: "ready", "done"
  win,        \* its arguments [f, e]
  wout        \* the function called and its outcome

mainvars ==
  <<mode, exclude, has_heif, tree, unwalked, curdir, tasks, acc, pc, stdout, error>>

workervars == <<wpc, win, wout>>

vars == <<mode, exclude, has_heif, tree, unwalked, curdir, tasks, acc, pc, stdout, error,
          wpc, win, wout>>

NoCall == [fn |-> "", res |-> Return(<<>>)]

\* A task of asyncio.create_task(worker_f(ff), name=ff): Submitted.
NewTask(ff) ==
  [name |-> ff, state |-> "submitted", tags |-> NoTags, result |-> <<>>, consumed |-> 0]

\* The exclusion filter with x in f (the file's name) in place of x in ff.
Excluded_name(ff, excl) ==
  \E i \in 1..Len(excl) : Contains(excl[i], SubSeq(ff, RFind(ff, "/") + 1, Len(ff)))

\* any(x in ff for x in exclude)
Excluded(ff, excl) == \E i \in 1..Len(excl) : Contains(excl[i], ff)

\* os.walk, top-down: a directory's files come together, in any order, and
\* before the files of the directories below it.
IsAncestor(d, sub) == Len(d) < Len(sub) /\ SubSeq(sub, 1, Len(d) + 1) = d \o <<"/">>

CanWalk(e) ==
  /\ e \in unwalked
  /\ (\E o \in unwalked : o.dir = curdir) => e.dir = curdir
  /\ \A o \in unwalked : ~IsAncestor(o.dir, e.dir)

\* The task the event loop runs next: tasks start in the order they were
\* created, and a worker, which awaits nothing, runs to its end in one turn.
NextToRun == CHOOSE i \in 1..Len(tasks) :
               /\ tasks[i].state = "submitted"
               /\ \A j \in 1..(i - 1) : tasks[j].state # "submitted"

\* The task asyncio.as_completed yields next: the first finished one not
\* yet yielded, in completion order.
NextDone == CHOOSE i \in 1..Len(tasks) :
              /\ tasks[i].state \in {"completed", "failed"} /\ tasks[i].consumed = 0
              /\ \A j \in 1..(i - 1) : tasks[j].consumed > 0

Init ==
  /\ mode \in Modes
  /\ exclude \in Excludes
  /\ has_heif \in BOOLEAN
  /\ tree \in Trees
  /\ unwalked = tree
  /\ curdir = Root
  /\ tasks = <<>>
  /\ acc = <<>>
  /\ pc = "walk"
  /\ stdout = <<>>
  /\ error = ""
  /\ wpc = "off"
  /\ win = [f |-> <<>>, e |-> NoTags]
  /\ wout = NoCall

\* main, one turn of the loops over os.walk(root): the file is skipped,
\* submitted as a task, or sieved out.
Walk ==
  /\ pc = "walk"
  /\ \E e \in unwalked :
       /\ CanWalk(e)
       /\ LET ff == PathJoin(e.dir, e.name)
          IN tasks' = IF Excluded(ff, exclude) THEN tasks
                      ELSE IF Sieve(mode, ff, has_heif) THEN Append(tasks, NewTask(ff))
                      ELSE tasks
       /\ unwalked' = unwalked \ {e}
       /\ curdir' = e.dir
  /\ UNCHANGED <<mode, exclude, has_heif, tree, acc, pc, stdout, error, workervars>>

\* main reaches await collector_f(tasks): the collector starts with an
\* empty accumulator and main yields to the event loop for the first time.
Await ==
  /\ pc = "walk"
  /\ unwalked = {}
  /\ pc' = "collect"
  /\ acc' = <<>>
  /\ UNCHANGED <<mode, exclude, has_heif, tree, unwalked, curdir, tasks, stdout, error,
                 workervars>>

\* The event loop runs one task: worker_f(ff) returns (Completed) or
\* raises (Failed).  The tag set the file holds is drawn when the worker
\* opens it, and kept with the task.
Step ==
  /\ pc = "collect"
  /\ \E i \in 1..Len(tasks) : tasks[i].state = "submitted"
  /\ \E e \in TagSets(mode) :
       LET i == NextToRun
           r == Worker(mode, tasks[i].name, e)
       IN tasks' = [tasks EXCEPT ![i] =
                      [@ EXCEPT !.state = IF r.ok THEN "completed" ELSE "failed",
                                !.tags = e,
                                !.result = r.val]]
  /\ UNCHANGED <<mode, exclude, has_heif, tree, unwalked, curdir, acc, pc, stdout, error,
                 workervars>>

\* The collector's loop with the task's exception caught and the task
\* passed over.
Consume_swallow ==
  /\ pc = "collect"
  /\ \E i \in 1..Len(tasks) :
       tasks[i].state \in {"completed", "failed"} /\ tasks[i].consumed = 0
  /\ LET i == NextDone
     IN /\ acc' = IF tasks[i].state = "failed" THEN acc
                  ELSE Add(CollectorOf(mode), acc, tasks[i].result)
        /\ tasks' = [tasks EXCEPT ![i].consumed = @ + 1]
  /\ UNCHANGED <<mode, exclude, has_heif, tree, unwalked, curdir, pc, error, stdout,
                 workervars>>

\* One turn of the collector's loop over asyncio.as_completed(tasks): the
\* result is added to the accumulator, or the task's exception leaves the
\* collector, main and asyncio.run, which cancels the tasks not yet run.
\* The collector may take a finished task while later tasks have not run.
Consume ==
  /\ pc = "collect"
  /\ \E i \in 1..Len(tasks) :
       tasks[i].state \in {"completed", "failed"} /\ tasks[i].consumed = 0
  /\ LET i == NextDone
     IN IF tasks[i].state = "failed"
        THEN /\ pc' = "raised"
             /\ error' = tasks[i].result
             /\ acc' = acc
             /\ tasks' = [j \in 1..Len(tasks) |->
                            IF j = i THEN [tasks[j] EXCEPT !.consumed = @ + 1]
                            ELSE IF tasks[j].state = "submitted"
                            THEN [tasks[j] EXCEPT !.state = "cancelled"]
                            ELSE tasks[j]]
        ELSE /\ acc' = Add(CollectorOf(mode), acc, tasks[i].result)
             /\ tasks' = [tasks EXCEPT ![i].consumed = @ + 1]
             /\ UNCHANGED <<pc, error>>
  /\ UNCHANGED <<mode, exclude, has_heif, tree, unwalked, curdir, stdout, workervars>>

\* The report printed once every task is done, taken by the collector or
\* not.
Emit_early ==
  /\ pc = "collect"
  /\ \A i \in 1..Len(tasks) : tasks[i].state \in {"completed", "failed"}
  /\ stdout' = Append(stdout, Render(CollectorOf(mode), acc))
  /\ pc' = "printed"
  /\ UNCHANGED <<mode, exclude, has_heif, tree, unwalked, curdir, tasks, acc, error,
                 workervars>>

\* Every task has been yielded: the collector returns its text and main
\* prints it.
Emit ==
  /\ pc = "collect"
  /\ \A i \in 1..Len(tasks) : tasks[i].consumed > 0
  /\ stdout' = Append(stdout, Render(CollectorOf(mode), acc))
  /\ pc' = "printed"
  /\ UNCHANGED <<mode, exclude, has_heif, tree, unwalked, curdir, tasks, acc, error,
                 workervars>>

Next == Walk \/ Await \/ Step \/ Consume \/ Emit

Spec == Init /\ [][Next]_vars

(***************************************************************************)
(* WorkerSpec: the worker functions of both revisions as pure functions,   *)
(* each applied to a path and a tag set drawn from bounded sets.           *)
(***************************************************************************)
\* The bytes a comment's text is made of: "H", NUL, and 0xFF (not UTF-8).
TailBytes == {72, 0, 255}

RECURSIVE SeqsUpTo(_, _)
SeqsUpTo(S, n) ==
  IF n = 0 THEN {<<>>}
  ELSE LET shorter == SeqsUpTo(S, n - 1)
       IN shorter \cup {Append(q, x) : q \in {t \in shorter : Len(t) = n - 1}, x \in S}

Tails == SeqsUpTo(TailBytes, MaxTail)

\* Payloads of Exif.UserComment: each marker followed by a text, a payload
\* that misses a marker by its last byte, payloads shorter than a marker
\* (a cut marker, seven NULs, short texts, no bytes at all).
Payloads ==
  {usercomment_encoding[i][1] \o t : i \in 1..Len(usercomment_encoding), t \in Tails}
    \cup {<<65, 83, 67, 73, 73, 0, 0, 72>> \o t : t \in Tails}
    \cup {<<65, 83, 67, 73, 73>>, <<0, 0, 0, 0, 0, 0, 0>>}
    \cup Tails

Comments ==
  {NoComment, StrComment(<<>>), StrComment(<<"A", "S", "C", "I", "I">>)}
    \cup {BytesComment(b) : b \in Payloads}

MakeModels == {None, <<>>, <<"K">>, <<" ", "K", "NUL">>, <<"NUL">>}

WorkerTagSets ==
  {Tags(mk, md) : mk \in MakeModels, md \in MakeModels}
    \cup {CommentTags(c) : c \in Comments}
    \cup {BadFile}

WorkerPaths ==
  {PathJoin(DirKeep, <<"a", ".", "j", "p", "g">>), PathJoin(DirSkip, <<"d", ".", "j", "p", "g">>)}

WorkerInit ==
  /\ wpc = "ready"
  /\ win \in [f : WorkerPaths, e : WorkerTagSets]
  /\ wout = NoCall
  /\ mode = "cams"
  /\ exclude = <<>>
  /\ has_heif = FALSE
  /\ tree = {}
  /\ unwalked = {}
  /\ curdir = Root
  /\ tasks = <<>>
  /\ acc = <<>>
  /\ pc = "off"
  /\ stdout = <<>>
  /\ error = ""

Call(fn, res) ==
  /\ wpc = "ready"
  /\ wpc' = "done"
  /\ wout' = [fn |-> fn, res |-> res]
  /\ UNCHANGED <<win, mainvars>>

CallCams == Call("workers.cams", cams(win.f, win.e))

CallNocam == Call("workers.nocam", nocam(win.f, win.e))

CallUsercomment == Call("workers.usercomment", usercomment(win.f, win.e))

CallCamsProcess == Call("Cams.process", Cams_process(win.f, win.e))

CallNoCamProcess == Call("NoCam.process", NoCam_process(win.f, win.e))

CallUserCommentProcess == Call("UserComment.process", UserComment_process(win.f, win.e))

WorkerNext ==
  \/ CallCams
  \/ CallNocam
  \/ CallUsercomment
  \/ CallCamsProcess
  \/ CallNoCamProcess
  \/ CallUserCommentProcess

WorkerSpec == WorkerInit /\ [][WorkerNext]_vars

(***************************************************************************)
(* Properties.                                                             *)
(***************************************************************************)
\* The joined path of a file of the tree.
FullPath(e) == PathJoin(e.dir, e.name)

\* x occurs in s: at some offset every character of x is met in s.
Occurs(x, s) ==
  \E a \in 0..(Len(s) - Len(x)) : \A k \in 1..Len(x) : s[a + k] = x[k]

\* The file passes the exclusion filter and the mode's sieve.
Passes(e) ==
  /\ \A k \in 1..Len(exclude) : ~Occurs(exclude[k], FullPath(e))
  /\ Sieve(mode, FullPath(e), has_heif)

TaskNames == {tasks[i].name : i \in 1..Len(tasks)}

\* The results in the order the collector took them.
Results == [i \in 1..Len(tasks) |-> tasks[i].result]

\* Every order the same results can arrive in.
Orders(rs) ==
  {[i \in 1..Len(rs) |-> rs[p[i]]] : p \in Permutations(1..Len(rs))}

\* The lines of a report, each with the number of times it occurs.
LinesOf(report) ==
  [l \in {report[i] : i \in 1..Len(report)} |->
     Cardinality({i \in 1..Len(report) : report[i] = l})]

RECURSIVE SumCounts(_)
SumCounts(report) ==
  IF report = <<>> THEN 0 ELSE Head(report)[3] + SumCounts(Tail(report))

\* C1: in cams mode, when the report is printed every file that passed the
\* exclusion filter and the sieve has yielded exactly one (maker, model)
\* result, taken once by two_level, and the counts of the report add up to
\* the number of those files.
C1_CamsTotal ==
  (pc = "printed" /\ mode = "cams") =>
    /\ Len(tasks) = Cardinality({e \in tree : Passes(e)})
    /\ \A i \in 1..Len(tasks) :
         /\ tasks[i].state = "completed"
         /\ tasks[i].consumed = 1
         /\ Len(tasks[i].result) = 2
    /\ SumCounts(stdout[1]) = Cardinality({e \in tree : Passes(e)})

\* C1's case: a printed cams report in which two files share a maker and a
\* model, over a tree with a file that was not submitted.
C1_Witness ==
  /\ pc = "printed"
  /\ mode = "cams"
  /\ \E i \in 1..Len(stdout[1]) : stdout[1][i][3] >= 2
  /\ Cardinality(tree) > Len(tasks)

\* C5: the submitted tasks are exactly the walked files whose joined path
\* holds none of the exclusion substrings and satisfies the mode's sieve,
\* each submitted once; a file with an exclusion substring in its path is
\* never a task, and the report is the collector's text over the submitted
\* tasks' results alone.
C5_SubmittedExactly ==
  /\ TaskNames = {FullPath(e) : e \in {w \in tree \ unwalked : Passes(w)}}
  /\ Len(tasks) = Cardinality(TaskNames)
  /\ \A e \in tree : \A k \in 1..Len(exclude) :
       Occurs(exclude[k], FullPath(e)) => FullPath(e) \notin TaskNames
  /\ pc = "printed" => stdout = <<Collect(CollectorOf(mode), Results)>>

\* C5's case: skip/d.jpg and keep/b.jpg walked with -x skip, and only
\* b.jpg's task behind the printed report.
C5_Witness ==
  /\ pc = "printed"
  /\ exclude = << <<"s", "k", "i", "p">> >>
  /\ \E e \in tree : e.dir = DirSkip /\ Sieve(mode, FullPath(e), has_heif)
  /\ TaskNames = {PathJoin(DirKeep, <<"b", ".", "j", "p", "g">>)}
  /\ stdout[1] # <<>>

\* The file lies directly in directory d.
DirectlyIn(ff, d) ==
  /\ Len(ff) > Len(d) + 1
  /\ SubSeq(ff, 1, Len(d)) = d
  /\ ff[Len(d) + 1] = "/"
  /\ \A k \in (Len(d) + 2)..Len(ff) : ff[k] # "/"

TasksIn(d) == {i \in 1..Len(tasks) : DirectlyIn(tasks[i].name, d)}

\* The tag set lacks GPS latitude or GPS longitude.
LacksGPS(e) == e.Lat = None \/ e.Lon = None

NoGpsIn(d) == Cardinality({i \in TasksIn(d) : LacksGPS(tasks[i].tags)})

\* C6: in nogpsdir mode, when the report is printed the two counts kept
\* for a directory add up to the sieved files directly in it, the no-GPS
\* count is the number of those files lacking latitude or longitude, a
\* directory has a line (no-GPS count, has-GPS count, directory) iff its
\* no-GPS count is at least 1, and the lines ascend by no-GPS count.
C6_NoGpsDir ==
  (pc = "printed" /\ mode = "nogpsdir") =>
    LET report == stdout[1]
        dirs == {e.dir : e \in tree}
    IN /\ \A d \in dirs :
            /\ TasksIn(d) # {} =>
                 /\ DictHas(acc, d)
                 /\ DictGet(acc, d)[TRUE] + DictGet(acc, d)[FALSE]
                      = Cardinality(TasksIn(d))
                 /\ DictGet(acc, d)[TRUE] = NoGpsIn(d)
            /\ NoGpsIn(d) >= 1 <=> \E i \in 1..Len(report) : report[i][3] = d
            /\ \A i \in 1..Len(report) :
                 report[i][3] = d =>
                   report[i] = <<NoGpsIn(d), Cardinality(TasksIn(d)) - NoGpsIn(d), d>>
       /\ \A i \in 1..Len(report) : \A j \in (i + 1)..Len(report) :
            /\ report[i][1] <= report[j][1]
            /\ report[i][3] # report[j][3]
       /\ \A i \in 1..Len(report) : report[i][3] \in dirs

\* C6's case: a directory with two files without GPS and one with GPS,
\* rendered with the counts 2 and 1.
C6_Witness ==
  /\ pc = "printed"
  /\ mode = "nogpsdir"
  /\ \E i \in 1..Len(stdout[1]) : stdout[1][i] = <<2, 1, DirKeep>>

\* C2: the stats collector's report is the same text, line for line, for
\* every order in which the same results arrive, ties between counts
\* included.
C2_StatsOrderInvariant ==
  (pc = "printed" /\ CollectorOf(mode) = "stats") =>
    \A q \in Orders(Results) : Collect("stats", q) = stdout[1]

C4_NoPartialOutput ==
  /\ (\E i \in 1..Len(tasks) : tasks[i].state = "failed") =>
       /\ stdout = <<>>
       /\ pc \in {"collect", "raised"}
       /\ ~ENABLED Emit
       /\ pc = "collect" => ENABLED Consume
  /\ pc = "raised" =>
       /\ stdout = <<>>
       /\ \E i \in 1..Len(tasks) :
            /\ tasks[i].state = "failed"
            /\ tasks[i].consumed = 1
            /\ error = tasks[i].result
       /\ ~ENABLED Next
  /\ stdout # <<>> => \A i \in 1..Len(tasks) : tasks[i].state = "completed"

\* C4's case: the run ended by the failure of the second of three tasks,
\* with the first task's result already in the accumulator.
C4_Witness ==
  /\ pc = "raised"
  /\ Len(tasks) = 3
  /\ tasks[1].state = "completed"
  /\ tasks[2].state = "failed"
  /\ acc # <<>>
  /\ stdout = <<>>

C9_State ==
  /\ (\E i \in 1..Len(tasks) : tasks[i].state # "submitted" \/ tasks[i].consumed > 0) =>
       (pc # "walk" /\ unwalked = {})
  /\ \A i \in 1..Len(tasks) :
       /\ tasks[i].consumed <= 1
       /\ tasks[i].consumed = 1 => tasks[i].state \in {"completed", "failed"}
  /\ stdout # <<>> =>
       /\ Len(stdout) = 1
       /\ \A i \in 1..Len(tasks) : tasks[i].state = "completed" /\ tasks[i].consumed = 1

C9_Step ==
  /\ Len(tasks') # Len(tasks) =>
       /\ pc = "walk"
       /\ \A i \in 1..Len(tasks) : tasks[i].state = "submitted" /\ tasks[i].consumed = 0
  /\ acc' # acc =>
       /\ pc = "collect"
       /\ \E i \in 1..Len(tasks) :
            /\ tasks[i].state = "completed"
            /\ tasks[i].consumed = 0
            /\ tasks'[i].consumed = 1
            /\ acc' = Add(CollectorOf(mode), acc, tasks[i].result)

\* C9: every task is submitted before a task runs or a result is taken; a
\* result is taken at most once, and only of a finished task; a report is
\* printed once, after every task has completed and been taken exactly
\* once; the accumulator changes only by the collector adding the result
\* of a completed task it has not taken yet.
C9_Order == [](C9_State) /\ [][C9_Step]_vars

\* C9's case: a report printed after several tasks were taken.
C9_Witness ==
  /\ pc = "printed"
  /\ Len(tasks) >= 2
  /\ acc # <<>>
  /\ \A i \in 1..Len(tasks) : tasks[i].consumed = 1

\* The positions of "." in a path.
Dots(ff) == {k \in 1..Len(ff) : ff[k] = "."}

\* C10: in ftypes mode every walked file without an exclusion substring is
\* submitted; a completed task's result is what follows the last "." of
\* its full path; a task whose path holds no "." fails with IndexError and
\* never completes, and with such a task submitted nothing is printed.
C10_Ftypes ==
  mode = "ftypes" =>
    /\ TaskNames =
         {FullPath(e) : e \in {w \in tree \ unwalked :
            \A k \in 1..Len(exclude) : ~Occurs(exclude[k], FullPath(w))}}
    /\ \A i \in 1..Len(tasks) :
         LET ff == tasks[i].name
         IN /\ tasks[i].state = "completed" =>
                 \E k \in Dots(ff) :
                   /\ \A j \in Dots(ff) : j <= k
                   /\ tasks[i].result = SubSeq(ff, k + 1, Len(ff))
            /\ tasks[i].state = "failed" =>
                 (Dots(ff) = {} /\ tasks[i].result = "IndexError")
            /\ Dots(ff) = {} =>
                 /\ tasks[i].state \in {"submitted", "failed", "cancelled"}
                 /\ stdout = <<>>

\* C10's case: an ftypes run ended by the IndexError of a file without
\* ".", after another file's extension was returned.
C10_Witness ==
  /\ mode = "ftypes"
  /\ pc = "raised"
  /\ error = "IndexError"
  /\ \E i \in 1..Len(tasks) :
       tasks[i].state = "completed" /\ tasks[i].result = <<"j", "p", "g">>

\* C7: in both revisions, for a file whose tag set misses Make or Model
\* the nocam worker returns the file's path and the cams worker returns
\* "<UNDEF>" for the missing field.
C7_DisjointConsistent ==
  (wpc = "done" /\ ~win.e.bad /\ (win.e.Make = None \/ win.e.Model = None)) =>
    /\ wout.fn \in {"workers.nocam", "NoCam.process"} => wout.res = Return(win.f)
    /\ wout.fn \in {"workers.cams", "Cams.process"} =>
         /\ wout.res.ok
         /\ win.e.Make = None => wout.res.val[1] = UNDEF
         /\ win.e.Model = None => wout.res.val[2] = UNDEF

\* The four markers, byte by byte.
FourMarkers ==
  { <<65, 83, 67, 73, 73, 0, 0, 0>>, <<85, 78, 73, 67, 79, 68, 69, 0>>,
    <<74, 73, 83, 0, 0, 0, 0, 0>>, <<0, 0, 0, 0, 0, 0, 0, 0>> }

\* The bytes of a payload that are decoded: those after position 8 when the
\* first 8 bytes are a marker, all of them otherwise.
TextBytes(b) ==
  IF Len(b) >= 8 /\ [i \in 1..8 |-> b[i]] \in FourMarkers
  THEN [i \in 1..(Len(b) - 8) |-> b[i + 8]]
  ELSE b

\* C8: the usercomment worker of either revision, on a file that opens:
\* an absent tag gives ("", ""); a str gives (path, str); a byte payload
\* gives (path, text) with text the decoding of the bytes after position 8
\* when its first 8 bytes are one of the four markers and of the whole
\* payload otherwise (payloads shorter than 8 bytes included), the call
\* raising when those bytes do not decode; ("", "") is returned for an
\* absent tag only.
C8_Decoding ==
  (wpc = "done" /\ wout.fn \in {"workers.usercomment", "UserComment.process"}
     /\ ~win.e.bad) =>
    LET c == win.e.UserComment
        text == TextBytes(c.b)
    IN /\ c.t = "none" => wout.res = Return(<< <<>>, <<>> >>)
       /\ c.t = "str" => wout.res = Return(<<win.f, c.s>>)
       /\ c.t = "bytes" =>
            IF \E i \in 1..Len(text) : text[i] = 255
            THEN ~wout.res.ok
            ELSE wout.res = Return(<<win.f, [i \in 1..Len(text) |-> Chr(text[i])]>>)
       /\ (wout.res.ok /\ wout.res.val[1] = <<>>) => c.t = "none"

\* C8's case: the payload ASCII\0\0\0 followed by "H" gave (path, "H").
C8_Witness ==
  /\ wpc = "done"
  /\ wout.fn = "workers.usercomment"
  /\ win.e.UserComment = BytesComment(<<65, 83, 67, 73, 73, 0, 0, 0, 72>>)
  /\ wout.res = Return(<<win.f, <<"H">> >>)

====
